---- MODULE Spec2Model ----
(***************************************************************************)
(* Model of the websocket hub of package discord (HandleWebSocket,         *)
(* handleIncomingMessage, broadcastToChat, broadcastGlobal,                *)
(* persistMessage).  One handler goroutine (the reader), one writer         *)
(* goroutine and one heartbeat goroutine per connection; the registry      *)
(* `clients` is shared and guarded by an RWMutex, so every critical        *)
(* section is one atomic step.                                              *)
(***************************************************************************)
EXTENDS Integers, Sequences, FiniteSets, TLC

\* ---------------------------------------------------------------- bounds
\* connections accepted in one run
MaxSessions == 2
\* capacity of Client.Send (256 in the source, scaled down): two, so that a
\* queue can hold frames of different broadcasters in an order
sendQueueSize == 2
\* inbound envelopes decoded in one run (all sessions together): enough to
\* fill a queue and overflow it
MaxEnvelopes == sendQueueSize + 1
\* inbound envelopes decoded in one run of the specifications that interleave
\* every failure or every store fault: enough to fill a queue
FillEnvelopes == sendQueueSize
\* ticks of the read deadline (60 s in the source, in units of pingPeriod)
pongWait == 2

\* ------------------------------------------------------------- universes
Sess == 1..MaxSessions
NoSess == 0
Users == {"u1", "u2"}
NoUser == "-"
\* the rooms in db.MereCollection and their participants
Participants == [c1 |-> {"u1", "u2"}, c2 |-> {"u1"}]
\* the chat ids an envelope may name: c9 is no chat of the collection
ChatIDs == {"c1", "c2", "c9"}
ChatExists(cid) == cid \in DOMAIN Participants
Nil == [nil |-> TRUE]
NoFrame == [type |-> "none"]

\* models.IncomingWSMessage, as decoded by ReadJSON: the fields the dispatch
\* of a type reads range over their values, the others are left zero
Envelope(type, cid, content, url, mtype, online, clientID) ==
    [Type |-> type, ChatID |-> cid, Content |-> content, MediaURL |-> url,
     MediaType |-> mtype, Online |-> online, ClientID |-> clientID]

Envelopes ==
    {Envelope("message", c, x, u, m, FALSE, "") :
        c \in ChatIDs, x \in {"", "hi"}, u \in {"", "m"}, m \in {"", "t"}}
    \cup {Envelope("message", c, "hi", "", "", FALSE, "k") : c \in ChatIDs}
    \cup {Envelope("typing", c, "", "", "", FALSE, "") : c \in ChatIDs}
    \cup {Envelope("presence", "", "", "", "", o, "") : o \in BOOLEAN}
    \cup {Envelope("ping", "", "", "", "", FALSE, "")}

\* the store call of one dispatch that returns an error, if any
StoreFaults == {"none", "count", "insert", "update", "find"}

\* the store calls the dispatch of an envelope can reach
FaultsOf(in) ==
    CASE in.Type = "message" -> StoreFaults
      [] in.Type = "typing" -> {"none", "find"}
      [] OTHER -> {"none"}

\* StartNewChat requests served at a time
MaxCalls == 2
Calls == 1..MaxCalls

\* a request slot no handler has been started for
NoCall == [pc |-> "idle", participants |-> <<>>, EntityType |-> "",
           EntityId |-> "", status |-> 0, chat |-> Nil]

\* no file at fullPath
NoFile == -1

\* SaveFile has not been called
NoSave == [called |-> FALSE, len |-> 0, maxSize |-> 0, clean |-> TRUE,
           fault |-> "none", ret |-> "", stored |-> NoFile]

VARIABLES
    clients,      \* clients.m : userID -> session (NoSess: no entry)
    nSess,        \* connections accepted so far
    userOf,       \* Client.UserID of each session
    pc,           \* where each handler goroutine (the reader) is
    Send,         \* Client.Send : the buffered outbound queue
    sendClosed,   \* whether Client.Send has been closed
    connClosed,   \* whether the transport has been closed (conn.Close)
    wpc,          \* writer goroutine: none / run / failed (write error) / ended
    hpc,          \* heartbeat goroutine: none / run / failed (ping error) / ended
    timer,        \* ticks since the read deadline was last set
    peer,         \* whether the remote peer still talks: live / silent
    targets,      \* broadcast in progress: sessions still to be sent to
    payload,      \* broadcast in progress: the frame
    snap,         \* the targets snapshot of the last broadcast of the handler
    dropped,      \* sessions the last broadcast logged as dropped
    panicked,     \* run-time panic raised in the handler goroutine
    messages,     \* db.MessagesCollection
    updatedAt,    \* db.MereCollection: number of updatedAt writes per chat
    logged,       \* what the last iteration of the reader loop logged: the
                  \* read error that ended the loop, or why the envelope was
                  \* not served ("" when nothing was logged)
    nEnv,         \* envelopes decoded so far
    response,     \* how the last connection attempt was answered
    chats,        \* db.MereCollection: the chat documents, in insertion order
    calls,        \* the StartNewChat requests being served
    saved         \* the last SaveFile call: arguments, return value, file

vars == <<clients, nSess, userOf, pc, Send, sendClosed, connClosed, wpc, hpc,
          timer, peer, targets, payload, snap, dropped, panicked, messages,
          updatedAt, logged, nEnv, response, chats, calls, saved>>

\* the variables of the websocket hub
hubVars == <<clients, nSess, userOf, pc, Send, sendClosed, connClosed, wpc,
             hpc, timer, peer, targets, payload, snap, dropped, panicked,
             messages, updatedAt, logged, nEnv, response>>

Init ==
    /\ clients = [u \in Users |-> NoSess]
    /\ nSess = 0
    /\ userOf = [s \in Sess |-> NoUser]
    /\ pc = [s \in Sess |-> "none"]
    /\ Send = [s \in Sess |-> <<>>]
    /\ sendClosed = [s \in Sess |-> FALSE]
    /\ connClosed = [s \in Sess |-> FALSE]
    /\ wpc = [s \in Sess |-> "none"]
    /\ hpc = [s \in Sess |-> "none"]
    /\ timer = [s \in Sess |-> 0]
    /\ peer = [s \in Sess |-> "live"]
    /\ targets = [s \in Sess |-> {}]
    /\ payload = [s \in Sess |-> NoFrame]
    /\ snap = [s \in Sess |-> {}]
    /\ dropped = [s \in Sess |-> {}]
    /\ panicked = [s \in Sess |-> "no"]
    /\ messages = {}
    /\ updatedAt = [c \in DOMAIN Participants |-> 0]
    /\ logged = [s \in Sess |-> ""]
    /\ nEnv = 0
    /\ response = ""
    /\ chats = <<>>
    /\ calls = [r \in Calls |-> NoCall]
    /\ saved = NoSave

\* ------------------------------------------------------------ connection
RegisterAll(u, s) == [q \in Users |-> s]

\* HandleWebSocket up to the reader loop: the session is built, installed in
\* the registry under the write lock (a blind overwrite of clients.m[userID]),
\* the read deadline is set and the writer and heartbeat goroutines start.
Register(u, s) == [clients EXCEPT ![u] = s]

Connect(u) ==
    /\ nSess < MaxSessions
    /\ LET s == nSess + 1 IN
        /\ nSess' = s
        /\ userOf' = [userOf EXCEPT ![s] = u]
        /\ clients' = Register(u, s)
        /\ pc' = [pc EXCEPT ![s] = "read"]
        /\ wpc' = [wpc EXCEPT ![s] = "run"]
        /\ hpc' = [hpc EXCEPT ![s] = "run"]
        /\ timer' = [timer EXCEPT ![s] = 0]
        /\ response' = "upgraded"
    /\ UNCHANGED <<Send, sendClosed, connClosed, peer, targets, payload, snap,
                   dropped, panicked, messages, updatedAt, logged, nEnv,
                   chats, calls, saved>>

\* the values of the token query parameter: none, one the validator rejects,
\* one of each user
Tokens == {"", "bad", "t1", "t2"}

\* middleware.ValidateJWT("Bearer " + rawToken): the claims of a token the
\* validator accepts, an error for any other
ValidateJWT(tok) ==
    CASE tok = "t1" -> [err |-> FALSE, UserID |-> "u1"]
      [] tok = "t2" -> [err |-> FALSE, UserID |-> "u2"]
      [] OTHER -> [err |-> TRUE, UserID |-> NoUser]

\* the handler answers and returns before any session exists
Refuse(how) ==
    /\ response' = how
    /\ UNCHANGED <<clients, nSess, userOf, pc, Send, sendClosed, connClosed,
                   wpc, hpc, timer, peer, targets, payload, snap, dropped,
                   panicked, messages, updatedAt, logged, nEnv, chats, calls,
                   saved>>

HandleWebSocketErrIgnored(rawToken, upgraded) ==
    IF rawToken = "" THEN Refuse("unauthorized: missing token")
    ELSE IF ~upgraded THEN Refuse("upgrade failed")
    ELSE Connect(IF rawToken = "t2" THEN "u2" ELSE "u1")

\* HandleWebSocket from its first line: the token, the validation, the
\* upgrade (which may fail), then the session
HandleWebSocket(rawToken, upgraded) ==
    IF rawToken = "" THEN Refuse("unauthorized: missing token")
    ELSE LET claims == ValidateJWT(rawToken) IN
         IF claims.err THEN Refuse("unauthorized")
         ELSE IF ~upgraded THEN Refuse("upgrade failed")
         ELSE Connect(claims.UserID)

\* a registry critical section cannot be entered once a panic has left
\* clients.Lock() held (the deferred function unlocks without defer)
RegistryUsable == \A s \in Sess : panicked[s] # "close of closed channel"

\* the cancellation channel `done` of session s is closed: close(done) is
\* the first statement of the deferred cleanup
doneClosed(s) == pc[s] \in {"defer_unreg", "defer_close", "closed"}

\* ----------------------------------------------------------- persistence
\* primitive.ObjectID.Hex(): the text form of a server-assigned id
Hex(oid) == <<"oid", oid>>

\* the id InsertOne assigns: fresh for every inserted document
NewObjectID == Cardinality(messages) + 1

\* persistMessage: the empty check, the media attachment, the record, the
\* insert.  err = "" is success.
MediaOf(mediaURL, mediaType) ==
    IF mediaURL # "" /\ mediaType # ""
    THEN [URL |-> mediaURL, Type |-> mediaType]
    ELSE Nil

persistMessageAnyContent(chatID, sender, content, mediaURL, mediaType, fault) ==
    IF fault = "insert"
    THEN [err |-> "insert failed", msg |-> Nil]
    ELSE [err |-> "",
          msg |-> [ID |-> NewObjectID, ChatID |-> chatID, UserID |-> sender,
                   Content |-> content,
                   Media |-> MediaOf(mediaURL, mediaType)]]

persistMessage(chatID, sender, content, mediaURL, mediaType, fault) ==
    IF content = "" /\ mediaURL = ""
    THEN [err |-> "empty content and media", msg |-> Nil]
    ELSE IF fault = "insert"
    THEN [err |-> "insert failed", msg |-> Nil]
    ELSE [err |-> "",
          msg |-> [ID |-> NewObjectID, ChatID |-> chatID, UserID |-> sender,
                   Content |-> content,
                   Media |-> MediaOf(mediaURL, mediaType)]]

MemberCountAnyUser(cid, userID) == IF ChatExists(cid) THEN 1 ELSE 0

\* the CountDocuments({chatid, participants: userID}) of handleIncomingMessage
MemberCount(cid, userID) ==
    IF ChatExists(cid) /\ userID \in Participants[cid] THEN 1 ELSE 0

\* handleIncomingMessage up to the broadcast: the persisted record (Nil when
\* the membership check or persistMessage returned early) and the log line
Ingest(userID, in, fault) ==
    IF fault = "count" THEN [msg |-> Nil, log |-> "membership check failed"]
    ELSE IF MemberCount(in.ChatID, userID) = 0
    THEN [msg |-> Nil, log |-> "unauthorized chat access"]
    ELSE LET r == persistMessage(in.ChatID, userID, in.Content, in.MediaURL,
                                 in.MediaType, fault)
         IN IF r.err = "insert failed"
            THEN [msg |-> Nil, log |-> "persist error: insert failed"]
            ELSE IF r.err # ""
            THEN [msg |-> Nil, log |-> "persist error: empty content and media"]
            ELSE [msg |-> r.msg, log |-> ""]

MessageFrameZeroID(msg, in) ==
    [type |-> "message", id |-> Hex(0), sender |-> msg.UserID,
     content |-> msg.Content, media |-> msg.Media, chatid |-> msg.ChatID]

\* the payload map handleIncomingMessage builds from the persisted record
MessageFrame(msg, in) ==
    IF in.ClientID # ""
    THEN [type |-> "message", id |-> Hex(msg.ID), sender |-> msg.UserID,
          content |-> msg.Content, media |-> msg.Media, chatid |-> msg.ChatID,
          clientId |-> in.ClientID]
    ELSE [type |-> "message", id |-> Hex(msg.ID), sender |-> msg.UserID,
          content |-> msg.Content, media |-> msg.Media, chatid |-> msg.ChatID]

TypingFrame(userID, in) ==
    [type |-> "typing", sender |-> userID, chatid |-> in.ChatID]

PresenceFrame(userID, in) ==
    [type |-> "presence", from |-> userID, online |-> in.Online]

\* ------------------------------------------------------------- broadcast
\* whether the FindOne of broadcastToChat returns the chat
ChatFound(cid, fault) == fault # "find" /\ ChatExists(cid)

ChatTargetsEveryone(cid, fault) ==
    IF ~ChatFound(cid, fault) THEN {}
    ELSE {clients[p] : p \in {q \in Users : clients[q] # NoSess}}

\* the targets broadcastToChat resolves under the read lock: the registry
\* entries of the chat's participants (none when FindOne fails)
ChatTargets(cid, fault) ==
    IF ~ChatFound(cid, fault) THEN {}
    ELSE {clients[p] : p \in {q \in Participants[cid] : clients[q] # NoSess}}

\* the log line of broadcastToChat
ChatLog(cid, fault) ==
    IF ChatFound(cid, fault) THEN "" ELSE "broadcast chat not found"

GlobalTargetsOneUser == {clients[u] : u \in {q \in {"u1"} : clients[q] # NoSess}}

\* the snapshot broadcastGlobal takes under the read lock
GlobalTargets == {clients[u] : u \in {q \in Users : clients[q] # NoSess}}

DispatchTypingStored(s, in, fault) ==
    LET userID == userOf[s] IN
    CASE in.Type = "message" ->
            LET r == Ingest(userID, in, fault) IN
            IF r.msg = Nil
            THEN [msg |-> Nil, frame |-> NoFrame, to |-> {}, log |-> r.log]
            ELSE [msg |-> r.msg, frame |-> MessageFrame(r.msg, in),
                  to |-> ChatTargets(in.ChatID, fault),
                  log |-> ChatLog(in.ChatID, fault)]
      [] in.Type = "typing" ->
            [msg |-> [ID |-> NewObjectID, ChatID |-> in.ChatID, UserID |-> userID,
                      Content |-> "typing", Media |-> Nil],
             frame |-> TypingFrame(userID, in),
             to |-> ChatTargets(in.ChatID, fault),
             log |-> ChatLog(in.ChatID, fault)]
      [] in.Type = "presence" ->
            [msg |-> Nil, frame |-> PresenceFrame(userID, in),
             to |-> GlobalTargets, log |-> ""]
      [] OTHER -> [msg |-> Nil, frame |-> NoFrame, to |-> {},
                   log |-> "unknown type"]

DispatchUnchecked(s, in, fault) ==
    LET userID == userOf[s] IN
    CASE in.Type = "message" ->
            LET r == Ingest(userID, in, fault) IN
            IF r.msg = Nil /\ fault # "insert"
            THEN [msg |-> Nil, frame |-> NoFrame, to |-> {}, log |-> r.log]
            ELSE IF r.msg = Nil
            THEN [msg |-> Nil,
                  frame |-> [type |-> "message", id |-> Hex(0), sender |-> userID,
                             content |-> in.Content, media |-> Nil,
                             chatid |-> in.ChatID],
                  to |-> ChatTargets(in.ChatID, "none"), log |-> r.log]
            ELSE [msg |-> r.msg, frame |-> MessageFrame(r.msg, in),
                  to |-> ChatTargets(in.ChatID, fault),
                  log |-> ChatLog(in.ChatID, fault)]
      [] in.Type = "typing" ->
            [msg |-> Nil, frame |-> TypingFrame(userID, in),
             to |-> ChatTargets(in.ChatID, fault),
             log |-> ChatLog(in.ChatID, fault)]
      [] in.Type = "presence" ->
            [msg |-> Nil, frame |-> PresenceFrame(userID, in),
             to |-> GlobalTargets, log |-> ""]
      [] OTHER -> [msg |-> Nil, frame |-> NoFrame, to |-> {},
                   log |-> "unknown type"]

\* what the reader does with a decoded envelope: the record it persists (or
\* Nil), the frame it broadcasts (or NoFrame), the targets it resolves and
\* the line it logs
Dispatch(s, in, fault) ==
    LET userID == userOf[s] IN
    CASE in.Type = "message" ->
            LET r == Ingest(userID, in, fault) IN
            IF r.msg = Nil
            THEN [msg |-> Nil, frame |-> NoFrame, to |-> {}, log |-> r.log]
            ELSE [msg |-> r.msg, frame |-> MessageFrame(r.msg, in),
                  to |-> ChatTargets(in.ChatID, fault),
                  log |-> ChatLog(in.ChatID, fault)]
      [] in.Type = "typing" ->
            [msg |-> Nil, frame |-> TypingFrame(userID, in),
             to |-> ChatTargets(in.ChatID, fault),
             log |-> ChatLog(in.ChatID, fault)]
      [] in.Type = "presence" ->
            [msg |-> Nil, frame |-> PresenceFrame(userID, in),
             to |-> GlobalTargets, log |-> ""]
      [] OTHER -> [msg |-> Nil, frame |-> NoFrame, to |-> {},
                   log |-> "unknown type"]

\* the envelopes the hub specification draws from: one of each type
HubEnvelopes ==
    {Envelope("message", "c1", "hi", "", "", FALSE, ""),
     Envelope("typing", "c1", "", "", "", FALSE, ""),
     Envelope("presence", "", "", "", "", TRUE, ""),
     Envelope("ping", "", "", "", "", FALSE, "")}

DeadlineNever(s) == FALSE

\* the read deadline set by SetReadDeadline(now + pongWait) has passed
DeadlinePassed(s) == timer[s] >= pongWait

\* ReadJSON can return a frame: the transport is open, the deadline ahead
CanRead(s) == pc[s] = "read" /\ ~connClosed[s] /\ ~DeadlinePassed(s)

\* Reader loop, one successful ReadJSON and the dispatch of the envelope up
\* to the end of the registry snapshot.  The store calls touch nothing the
\* other goroutines read, so they are folded into this step.
RecvEnvelope(s, in, fault) ==
    /\ CanRead(s)
    /\ peer[s] = "live"
    /\ nEnv < MaxEnvelopes
    /\ fault \in FaultsOf(in)
    /\ RegistryUsable
    /\ nEnv' = nEnv + 1
    /\ \E d \in {Dispatch(s, in, fault)} :
        /\ messages' = IF d.msg = Nil THEN messages ELSE messages \cup {d.msg}
        /\ updatedAt' = IF d.msg = Nil \/ fault = "update" THEN updatedAt
                        ELSE [updatedAt EXCEPT ![in.ChatID] = @ + 1]
        /\ payload' = [payload EXCEPT ![s] = d.frame]
        /\ targets' = [targets EXCEPT ![s] = d.to]
        /\ snap' = [snap EXCEPT ![s] = d.to]
        /\ dropped' = [dropped EXCEPT ![s] = {}]
        /\ pc' = [pc EXCEPT ![s] = IF d.frame = NoFrame THEN "read" ELSE "bcast"]
        /\ logged' = [logged EXCEPT ![s] = d.log]
    /\ UNCHANGED <<clients, nSess, userOf, Send, sendClosed, connClosed, wpc,
                   hpc, timer, peer, panicked, response,
                   chats, calls, saved>>

TrySendNoBound(q, closed, frame) ==
    IF closed THEN [res |-> "panic", q |-> q]
    ELSE [res |-> "sent", q |-> Append(q, frame)]

TrySendEvict(q, closed, frame) ==
    IF closed THEN [res |-> "panic", q |-> q]
    ELSE IF Len(q) < sendQueueSize THEN [res |-> "sent", q |-> Append(q, frame)]
    ELSE [res |-> "sent", q |-> Append(Tail(q), frame)]

\* the select of the enqueue loop on one target: a send on a closed channel
\* panics, a send on a channel with room enqueues, otherwise default drops
TrySend(q, closed, frame) ==
    IF closed THEN [res |-> "panic", q |-> q]
    ELSE IF Len(q) < sendQueueSize THEN [res |-> "sent", q |-> Append(q, frame)]
    ELSE [res |-> "dropped", q |-> q]

\* whether the select of the enqueue loop can proceed: the send case is ready
\* on a closed channel (it panics) or one with room, and the default case
\* makes the select ready whatever the channel holds
SendReady(q, closed) == closed \/ Len(q) < sendQueueSize

SelectBlocking(q, closed) == SendReady(q, closed)

SelectReady(q, closed) == SendReady(q, closed) \/ TRUE

\* One iteration of the enqueue loop of broadcastToChat / broadcastGlobal.
\* A panic unwinds the handler: its deferred cleanup runs next.
BcastSend(s, t) ==
    /\ pc[s] = "bcast"
    /\ t \in targets[s]
    /\ SelectReady(Send[t], sendClosed[t])
    /\ LET r == TrySend(Send[t], sendClosed[t], payload[s])
           rest == targets[s] \ {t}
       IN
        /\ Send' = [Send EXCEPT ![t] = r.q]
        /\ dropped' = [dropped EXCEPT ![s] =
                          IF r.res = "dropped" THEN @ \cup {t}
                          ELSE IF r.res = "panic" THEN {} ELSE @]
        /\ panicked' = IF r.res = "panic"
                       THEN [panicked EXCEPT ![s] = "send on closed channel"]
                       ELSE panicked
        /\ targets' = [targets EXCEPT ![s] = IF r.res = "panic" THEN {} ELSE rest]
        /\ payload' = IF r.res = "panic" THEN [payload EXCEPT ![s] = NoFrame]
                       ELSE payload
        /\ snap' = IF r.res = "panic" THEN [snap EXCEPT ![s] = {}] ELSE snap
        /\ pc' = [pc EXCEPT ![s] = IF r.res = "panic" THEN "defer_unreg" ELSE "bcast"]
    /\ UNCHANGED <<clients, nSess, userOf, sendClosed, connClosed, wpc, hpc,
                   timer, peer, messages, updatedAt, logged, nEnv, response,
                   chats, calls, saved>>

\* the enqueue loop is over: the broadcast returns to the reader loop
BcastReturn(s) ==
    /\ pc[s] = "bcast"
    /\ targets[s] = {}
    /\ pc' = [pc EXCEPT ![s] = "read"]
    /\ payload' = [payload EXCEPT ![s] = NoFrame]
    /\ snap' = [snap EXCEPT ![s] = {}]
    /\ dropped' = [dropped EXCEPT ![s] = {}]
    /\ UNCHANGED <<clients, nSess, userOf, Send, sendClosed, connClosed, wpc,
                   hpc, timer, peer, targets, panicked, messages, updatedAt,
                   logged, nEnv, response,
                   chats, calls, saved>>

\* ----------------------------------------------------- reader loop, errors
\* ReadJSON returns an error and the loop breaks: the deferred cleanup
\* starts with close(done)
ReaderBreak(s, why) ==
    /\ pc' = [pc EXCEPT ![s] = "defer_unreg"]
    /\ logged' = [logged EXCEPT ![s] = why]
    /\ UNCHANGED <<clients, nSess, userOf, Send, sendClosed, connClosed, wpc,
                   hpc, timer, peer, targets, payload, snap, dropped, panicked,
                   messages, updatedAt, nEnv, response,
                   chats, calls, saved>>

\* the transport fails or the peer goes away
ReadError(s) ==
    /\ pc[s] = "read"
    /\ ~connClosed[s]
    /\ ReaderBreak(s, "read error: io")

\* the writer or the heartbeat closed the conn: the pending read fails
ReadClosed(s) ==
    /\ pc[s] = "read"
    /\ connClosed[s]
    /\ ReaderBreak(s, "read error: closed")

\* the peer sends a frame that does not decode as IncomingWSMessage
ReadMalformed(s) ==
    /\ CanRead(s)
    /\ peer[s] = "live"
    /\ ReaderBreak(s, "read error: decode")

\* the read deadline (pongWait after it was last set) has passed
ReadTimeout(s) ==
    /\ pc[s] = "read"
    /\ DeadlinePassed(s)
    /\ ReaderBreak(s, "read error: timeout")

\* the pong handler, run inside ReadJSON: it sets the read deadline anew
Pong(s) ==
    /\ CanRead(s)
    /\ peer[s] = "live"
    /\ timer' = [timer EXCEPT ![s] = 0]
    /\ UNCHANGED <<clients, nSess, userOf, pc, Send, sendClosed, connClosed,
                   wpc, hpc, peer, targets, payload, snap, dropped, panicked,
                   messages, updatedAt, logged, nEnv, response,
                   chats, calls, saved>>

\* time passes for the read deadline of s
Tick(s) ==
    /\ pc[s] \in {"read", "bcast"}
    /\ timer[s] < pongWait
    /\ timer' = [timer EXCEPT ![s] = @ + 1]
    /\ UNCHANGED <<clients, nSess, userOf, pc, Send, sendClosed, connClosed,
                   wpc, hpc, peer, targets, payload, snap, dropped, panicked,
                   messages, updatedAt, logged, nEnv, response,
                   chats, calls, saved>>

\* the remote peer stops sending envelopes and pongs for good
PeerSilent(s) ==
    /\ pc[s] \in {"read", "bcast"}
    /\ peer[s] = "live"
    /\ peer' = [peer EXCEPT ![s] = "silent"]
    /\ UNCHANGED <<clients, nSess, userOf, pc, Send, sendClosed, connClosed,
                   wpc, hpc, timer, targets, payload, snap, dropped, panicked,
                   messages, updatedAt, logged, nEnv, response,
                   chats, calls, saved>>

\* ------------------------------------------------------ deferred cleanup
\* the session whose entry the cleanup of s deletes and whose Send it closes:
\* whatever clients.m[userID] holds (NoSess: no entry)
Installed(s) == clients[userOf[s]]

UnregisterNoDelete(u) == clients

UnregisterOtherUser(u) == [clients EXCEPT ![CHOOSE v \in Users : v # u] = NoSess]

\* delete(clients.m, userID)
Unregister(u) == [clients EXCEPT ![u] = NoSess]

\* clients.Lock(); if c, ok := clients.m[userID]; ok { delete; close(c.Send) };
\* clients.Unlock().  Closing a closed channel panics with the lock held.
DeferUnregister(s) ==
    /\ pc[s] = "defer_unreg"
    /\ RegistryUsable
    /\ LET c == Installed(s) IN
        IF c = NoSess
        THEN /\ pc' = [pc EXCEPT ![s] = "defer_close"]
             /\ UNCHANGED <<clients, sendClosed, panicked>>
        ELSE /\ clients' = Unregister(userOf[s])
             /\ IF sendClosed[c]
                THEN /\ panicked' = [panicked EXCEPT ![s] = "close of closed channel"]
                     /\ pc' = [pc EXCEPT ![s] = "closed"]
                     /\ UNCHANGED sendClosed
                ELSE /\ sendClosed' = [sendClosed EXCEPT ![c] = TRUE]
                     /\ pc' = [pc EXCEPT ![s] = "defer_close"]
                     /\ UNCHANGED panicked
    /\ UNCHANGED <<nSess, userOf, Send, connClosed, wpc, hpc, timer, peer,
                   targets, payload, snap, dropped, messages, updatedAt,
                   logged, nEnv, response,
                   chats, calls, saved>>

\* conn.Close(): the end of the handler
DeferConnClose(s) ==
    /\ pc[s] = "defer_close"
    /\ connClosed' = [connClosed EXCEPT ![s] = TRUE]
    /\ pc' = [pc EXCEPT ![s] = "closed"]
    /\ UNCHANGED <<clients, nSess, userOf, Send, sendClosed, wpc, hpc, timer,
                   peer, targets, payload, snap, dropped, panicked, messages,
                   updatedAt, logged, nEnv, response,
                   chats, calls, saved>>

\* ------------------------------------------------------ writer goroutine
RecvNewest(q) == [frame |-> q[Len(q)], rest |-> SubSeq(q, 1, Len(q) - 1)]

\* msg := <-client.Send on a channel that holds frames: the oldest frame
\* leaves the channel, the others keep their order
Recv(q) == [frame |-> Head(q), rest |-> Tail(q)]

\* one iteration of `for msg := range client.Send`: the head is received and
\* written; a failed write closes the conn and ends the goroutine
WriterWrite(s, ok) ==
    /\ wpc[s] = "run"
    /\ Send[s] # <<>>
    /\ ok => ~connClosed[s]
    /\ Send' = [Send EXCEPT ![s] = Recv(@).rest]
    /\ IF ok THEN UNCHANGED <<connClosed, wpc>>
       ELSE /\ connClosed' = [connClosed EXCEPT ![s] = TRUE]
            /\ wpc' = [wpc EXCEPT ![s] = "failed"]
    /\ UNCHANGED <<clients, nSess, userOf, pc, sendClosed, hpc, timer, peer,
                   targets, payload, snap, dropped, panicked, messages,
                   updatedAt, logged, nEnv, response,
                   chats, calls, saved>>

\* the range ends: the channel is closed and drained
WriterExit(s) ==
    /\ wpc[s] = "run"
    /\ Send[s] = <<>>
    /\ sendClosed[s]
    /\ wpc' = [wpc EXCEPT ![s] = "ended"]
    /\ UNCHANGED <<clients, nSess, userOf, pc, Send, sendClosed, connClosed,
                   hpc, timer, peer, targets, payload, snap, dropped, panicked,
                   messages, updatedAt, logged, nEnv, response,
                   chats, calls, saved>>

\* --------------------------------------------------- heartbeat goroutine
\* case <-ticker.C with a failing WriteControl: conn.Close() and return
HeartbeatFail(s) ==
    /\ hpc[s] = "run"
    /\ connClosed' = [connClosed EXCEPT ![s] = TRUE]
    /\ hpc' = [hpc EXCEPT ![s] = "failed"]
    /\ UNCHANGED <<clients, nSess, userOf, pc, Send, sendClosed, wpc, timer,
                   peer, targets, payload, snap, dropped, panicked, messages,
                   updatedAt, logged, nEnv, response,
                   chats, calls, saved>>

\* case <-done: return
HeartbeatDone(s) ==
    /\ hpc[s] = "run"
    /\ doneClosed(s)
    /\ hpc' = [hpc EXCEPT ![s] = "ended"]
    /\ UNCHANGED <<clients, nSess, userOf, pc, Send, sendClosed, connClosed,
                   wpc, timer, peer, targets, payload, snap, dropped, panicked,
                   messages, updatedAt, logged, nEnv, response,
                   chats, calls, saved>>

\* ------------------------------------------------------------------ next
\* the reader of the hub specification: queues fill, no queue overflows
HubRecv(s, in) ==
    /\ nEnv < FillEnvelopes
    /\ RecvEnvelope(s, in, "none")

\* the goroutines of the hub (no clock: a read may fail at any time)
Next ==
    \/ \E u \in Users : Connect(u)
    \/ \E s \in Sess, in \in HubEnvelopes : HubRecv(s, in)
    \/ \E s \in Sess, t \in Sess : BcastSend(s, t)
    \/ \E s \in Sess : BcastReturn(s)
    \/ \E s \in Sess : ReadError(s)
    \/ \E s \in Sess : ReadClosed(s)
    \/ \E s \in Sess : ReadMalformed(s)
    \/ \E s \in Sess : DeferUnregister(s)
    \/ \E s \in Sess : DeferConnClose(s)
    \/ \E s \in Sess, ok \in BOOLEAN : WriterWrite(s, ok)
    \/ \E s \in Sess : WriterExit(s)
    \/ \E s \in Sess : HeartbeatFail(s)
    \/ \E s \in Sess : HeartbeatDone(s)

Spec == Init /\ [][Next]_vars

\* the broadcasters among writers and cleanups (no heartbeat, no write
\* error), with envelopes enough to overflow a queue and a scheduler that
\* keeps running a broadcaster that can step;
\* nothing is assumed of the writers, the peers or the cleanups
BcastNext ==
    \/ \E u \in Users : Connect(u)
    \/ \E s \in Sess, in \in HubEnvelopes : RecvEnvelope(s, in, "none")
    \/ \E s \in Sess, t \in Sess : BcastSend(s, t)
    \/ \E s \in Sess : BcastReturn(s)
    \/ \E s \in Sess : ReadError(s)
    \/ \E s \in Sess : DeferUnregister(s)
    \/ \E s \in Sess : DeferConnClose(s)
    \/ \E s \in Sess : WriterWrite(s, TRUE)
    \/ \E s \in Sess : WriterExit(s)

BcastFairness ==
    \A s \in Sess : WF_vars(\E t \in Sess : BcastSend(s, t)) /\ WF_vars(BcastReturn(s))

FairSpec == Init /\ [][BcastNext]_vars /\ BcastFairness

\* the data path: every envelope and every store fault, one dispatch at a
\* time (a dispatch reads no other handler's broadcast), no transport
\* failure and no writer
IngestRecv(s, in, fault) ==
    /\ \A x \in Sess : pc[x] # "bcast"
    /\ nEnv < FillEnvelopes
    /\ RecvEnvelope(s, in, fault)

IngestNext ==
    \/ \E u \in Users : Connect(u)
    \/ \E s \in Sess, in \in Envelopes, fault \in StoreFaults :
            IngestRecv(s, in, fault)
    \/ \E s \in Sess, t \in Sess : BcastSend(s, t)
    \/ \E s \in Sess : BcastReturn(s)

IngestSpec == Init /\ [][IngestNext]_vars

\* the hub under a clock: read deadline, pongs, silent peers.  Envelopes are
\* of an unknown type, so that queues stay empty.
TimedEnvelopes == {Envelope("ping", "", "", "", "", FALSE, "")}

TimedNext ==
    \/ \E u \in Users : Connect(u)
    \/ \E s \in Sess, in \in TimedEnvelopes : RecvEnvelope(s, in, "none")
    \/ \E s \in Sess : ReadError(s)
    \/ \E s \in Sess : ReadClosed(s)
    \/ \E s \in Sess : ReadTimeout(s)
    \/ \E s \in Sess : Pong(s)
    \/ \E s \in Sess : Tick(s)
    \/ \E s \in Sess : PeerSilent(s)
    \/ \E s \in Sess : DeferUnregister(s)
    \/ \E s \in Sess : DeferConnClose(s)
    \/ \E s \in Sess : WriterExit(s)
    \/ \E s \in Sess : HeartbeatFail(s)
    \/ \E s \in Sess : HeartbeatDone(s)

\* what the scheduler and the clock guarantee: time passes, a goroutine that
\* can step does; nothing is assumed of the peers
TimedFairness ==
    \A s \in Sess :
        /\ WF_vars(Tick(s))
        /\ WF_vars(ReadTimeout(s))
        /\ WF_vars(ReadClosed(s))
        /\ WF_vars(DeferUnregister(s))
        /\ WF_vars(DeferConnClose(s))
        /\ WF_vars(WriterExit(s))
        /\ WF_vars(HeartbeatDone(s))

TimedSpec == Init /\ [][TimedNext]_vars /\ TimedFairness

\* the front door: connection attempts with every token among sessions that
\* read, fail and clean up
AuthNext ==
    \/ \E tok \in Tokens, upgraded \in BOOLEAN : HandleWebSocket(tok, upgraded)
    \/ \E s \in Sess, in \in TimedEnvelopes : RecvEnvelope(s, in, "none")
    \/ \E s \in Sess : ReadError(s)
    \/ \E s \in Sess : DeferUnregister(s)
    \/ \E s \in Sess : DeferConnClose(s)
    \/ \E s \in Sess : WriterExit(s)
    \/ \E s \in Sess : HeartbeatDone(s)

AuthSpec == Init /\ [][AuthNext]_vars

\* ---------------------------------------------------------- StartNewChat
\* the order sort.Strings puts the user ids in
StringRank == [u \in Users |-> IF u = "u1" THEN 1 ELSE 2]

\* the request bodies: a participants array of up to MaxParticipants entries
\* (user ids and the empty string) and the two entity fields
MaxParticipants == 2
ParticipantLists ==
    UNION {[1..n -> Users \cup {""}] : n \in 0..MaxParticipants}
EntityTypes == {"", "event"}
EntityIds == {"", "e1"}
Bodies ==
    [Participants : ParticipantLists, EntityType : EntityTypes,
     EntityId : EntityIds]

RECURSIVE Dedupe(_, _)
\* the loop over body.Participants: empty strings are skipped and the first
\* occurrence of each id is kept, in order
Dedupe(list, seen) ==
    IF list = <<>> THEN <<>>
    ELSE IF Head(list) = "" \/ Head(list) \in seen
         THEN Dedupe(Tail(list), seen)
         ELSE <<Head(list)>> \o Dedupe(Tail(list), seen \cup {Head(list)})

\* the requester is appended unless the body named it
WithRequester(list, user) ==
    IF \E i \in 1..Len(list) : list[i] = user THEN list
    ELSE Append(list, user)

RECURSIVE SortStrings(_)
\* sort.Strings: the least element first, then the rest sorted
SortStrings(list) ==
    IF list = <<>> THEN <<>>
    ELSE LET i == CHOOSE k \in 1..Len(list) :
                      \A j \in 1..Len(list) :
                          StringRank[list[k]] <= StringRank[list[j]]
             rest == [j \in 1..(Len(list) - 1) |->
                          IF j < i THEN list[j] ELSE list[j + 1]]
         IN <<list[i]>> \o SortStrings(rest)

\* the query document: array equality on participants, and the entity
\* fields, under the keys entityType and entityId, when they are not empty
ChatFilter(participants, EntityType, EntityId) ==
    [k \in {"participants"}
           \cup (IF EntityType # "" THEN {"entityType"} ELSE {})
           \cup (IF EntityId # "" THEN {"entityId"} ELSE {}) |->
        CASE k = "participants" -> participants
          [] k = "entityType" -> EntityType
          [] OTHER -> EntityId]

\* models.Chat as the store keeps it, under its bson keys
ChatDocument(id, participants, EntityType, EntityId) ==
    [chatid |-> id, participants |-> participants, entitytype |-> EntityType,
     entityid |-> EntityId]

\* a document matches a query when it has every field of the query with the
\* value of the query
Matches(doc, filter) ==
    \A k \in DOMAIN filter : k \in DOMAIN doc /\ doc[k] = filter[k]

\* FindOne: the first matching document in insertion order, Nil for
\* mongo.ErrNoDocuments
FindOne(filter) ==
    IF \E i \in 1..Len(chats) : Matches(chats[i], filter)
    THEN chats[CHOOSE i \in 1..Len(chats) :
                   /\ Matches(chats[i], filter)
                   /\ \A j \in 1..(i - 1) : ~Matches(chats[j], filter)]
    ELSE Nil

\* the handler writes its answer and returns
Respond(r, status, chat) ==
    calls' = [calls EXCEPT ![r].pc = "done", ![r].status = status,
                           ![r].chat = chat]

\* StartNewChat up to the lookup: the body is decoded and checked, the
\* participants deduplicated, completed with the requester and sorted
StartNewChat(r, user, decoded, body) ==
    /\ calls[r].pc = "idle"
    /\ LET participants ==
               SortStrings(WithRequester(Dedupe(body.Participants, {}), user))
       IN IF ~decoded \/ Len(body.Participants) = 0 \/ Len(participants) = 0
          THEN Respond(r, 400, Nil)
          ELSE calls' = [calls EXCEPT ![r].pc = "find",
                                      ![r].participants = participants,
                                      ![r].EntityType = body.EntityType,
                                      ![r].EntityId = body.EntityId]
    /\ UNCHANGED chats
    /\ UNCHANGED <<hubVars, saved>>

\* the lookup and its three outcomes: the chat exists and is returned, the
\* store fails, or there is no such document and the handler goes on
ChatFindOne(r, fails) ==
    /\ calls[r].pc = "find"
    /\ LET existing == FindOne(ChatFilter(calls[r].participants,
                                          calls[r].EntityType,
                                          calls[r].EntityId))
       IN IF fails THEN Respond(r, 500, Nil)
          ELSE IF existing # Nil THEN Respond(r, 200, existing)
          ELSE calls' = [calls EXCEPT ![r].pc = "insert"]
    /\ UNCHANGED chats
    /\ UNCHANGED <<hubVars, saved>>

\* the new chat is built under a fresh random id and inserted
ChatInsertOne(r, fails) ==
    /\ calls[r].pc = "insert"
    /\ LET newChat == ChatDocument(Len(chats) + 1, calls[r].participants,
                                   calls[r].EntityType, calls[r].EntityId)
       IN IF fails THEN /\ Respond(r, 500, Nil)
                        /\ UNCHANGED chats
          ELSE /\ chats' = Append(chats, newChat)
               /\ Respond(r, 200, newChat)
    /\ UNCHANGED <<hubVars, saved>>

\* StartNewChat requests served concurrently, one goroutine each
ChatNext ==
    \/ \E r \in Calls, user \in Users, decoded \in BOOLEAN, body \in Bodies :
           StartNewChat(r, user, decoded, body)
    \/ \E r \in Calls, fails \in BOOLEAN : ChatFindOne(r, fails)
    \/ \E r \in Calls, fails \in BOOLEAN : ChatInsertOne(r, fails)

ChatSpec == Init /\ [][ChatNext]_vars

\* -------------------------------------------------------------- SaveFile
\* the bytes peeked for MIME detection (512), one unit being 256 bytes
peekSize == 2

\* the longest upload, in the same unit
MaxFileLen == 5

PicTypes == {"", "photo", "document"}
Extensions == {".jpg", ".pdf", ".exe"}
MIMEs == {"image/jpeg", "application/pdf", "application/octet-stream"}
FormMIMEs == {"", "image/jpeg", "text/html"}
AllowedExtensions ==
    [photo |-> {".jpg", ".jpeg", ".png", ".gif", ".webp"},
     document |-> {".pdf"}]
AllowedMIMEs ==
    [photo |-> {"image/jpeg", "image/png", "image/gif", "image/webp"},
     document |-> {"application/pdf"}]

isExtensionAllowed(ext, picType) == ext \in AllowedExtensions[picType]
isMIMEAllowed(mimeType, picType) == mimeType \in AllowedMIMEs[picType]
extMatchesMIME(ext, mimeType, picType) ==
    isExtensionAllowed(ext, picType) /\ isMIMEAllowed(mimeType, picType)

\* what can go wrong in the file system during a call
SaveFaults == {"none", "read", "mkdir", "create", "write", "copy"}

\* the arguments of a call: the length of the stream, the limit, the picture
\* type of the destination folder, the extension of the file name, the type
\* http.DetectContentType finds, the Content-Type of the form part, and
\* whether the content passes the scanner's signatures
SaveInputs ==
    [len : 0..MaxFileLen, maxSize : 0..MaxFileLen, picType : PicTypes,
     ext : Extensions, sniffed : MIMEs, formMime : FormMIMEs,
     clean : BOOLEAN, fault : SaveFaults]

Min(a, b) == IF a <= b THEN a ELSE b

\* ScanForViruses on the stored file: an empty file and a file with a
\* signature are reported
ScanForViruses(size, clean) == size > 0 /\ clean

\* io.LimitReader(reader, limit) read to its end from a stream with
\* remaining bytes left: nothing when the limit is not positive
LimitReader(remaining, limit) ==
    IF limit <= 0 THEN 0 ELSE Min(remaining, limit)

\* SaveFile: the possible results (return value, size of the file left at
\* fullPath) of a call
SaveFile(in) ==
    LET n == Min(peekSize, in.len)
        mimeType ==
            IF /\ in.sniffed = "application/octet-stream"
               /\ in.formMime # ""
               /\ isMIMEAllowed(in.formMime, in.picType)
            THEN in.formMime ELSE in.sniffed
        written == LimitReader(in.len - n, in.maxSize - n)
        totalWritten == written + n
        Return(ret, stored) == {[ret |-> ret, stored |-> stored]}
    IN IF in.picType = "" THEN Return("unknown picture type", NoFile)
       ELSE IF ~isExtensionAllowed(in.ext, in.picType)
       THEN Return("ErrInvalidExtension", NoFile)
       ELSE IF in.fault = "read" THEN Return("read header", NoFile)
       ELSE IF ~isMIMEAllowed(mimeType, in.picType)
       THEN Return("ErrInvalidMIME", NoFile)
       ELSE IF ~extMatchesMIME(in.ext, mimeType, in.picType)
       THEN Return("extension does not match MIME type", NoFile)
       ELSE IF in.fault = "mkdir" THEN Return("mkdir", NoFile)
       ELSE IF in.fault = "create" THEN Return("create", NoFile)
       ELSE IF in.fault = "write"
       THEN UNION {Return("write header", k) : k \in 0..n}
       ELSE IF in.fault = "copy"
       THEN UNION {Return("write body", n + k) : k \in 0..written}
       ELSE IF in.maxSize > 0 /\ totalWritten > in.maxSize
       THEN Return("ErrFileTooLarge", NoFile)
       ELSE IF ~ScanForViruses(totalWritten, in.clean)
       THEN Return("virus scan failed", NoFile)
       ELSE Return("", totalWritten)

\* one call of SaveFile; calls do not meet, each writes a file under a name
\* of its own (uuid), so one call is followed
SaveFileCall(in) ==
    /\ ~saved.called
    /\ \E out \in SaveFile(in) :
           saved' = [called |-> TRUE, len |-> in.len, maxSize |-> in.maxSize,
                     clean |-> in.clean, fault |-> in.fault,
                     ret |-> out.ret, stored |-> out.stored]
    /\ UNCHANGED <<hubVars, chats, calls>>

SaveNext == \E in \in SaveInputs : SaveFileCall(in)

SaveSpec == Init /\ [][SaveNext]_vars

\* ================================================================ claims
\* the cleanup of s runs its registry critical section in this step
UnregisterStep(s) == pc[s] = "defer_unreg" /\ pc'[s] # "defer_unreg"

\* s is in its reader loop (reading or dispatching)
Active(s) == pc[s] \in {"read", "bcast"}

\* s has reached its terminal state
Closed(s) == pc[s] = "closed" /\ connClosed[s] /\ clients[userOf[s]] # s

\* C1: the cleanup of a session removes the registry entry of its userID only
\* when the installed session is that very session; a superseded session's
\* cleanup leaves its successor registered.
C1_UnregisterChecksIdentity ==
    [][\A s \in Sess : UnregisterStep(s) /\ Installed(s) # s => clients' = clients]_vars

\* C2: the cleanup of a session changes no other session: it closes no other
\* session's queue, removes no other session's registry entry, and no
\* handler is aborted by a panic on another session's closed queue.
C2_FailuresAreSessionLocal ==
    /\ [][\A s \in Sess : UnregisterStep(s) =>
            \A t \in Sess \ {s} :
                /\ sendClosed'[t] = sendClosed[t]
                /\ (Active(t) /\ clients[userOf[t]] = t => clients'[userOf[t]] = t)]_vars
    /\ [](\A s \in Sess : panicked[s] = "no")

\* the enqueue loop of s handles target t in this step
EnqueueStep(s, t) ==
    pc[s] = "bcast" /\ t \in targets[s] /\ targets'[s] = targets[s] \ {t}

\* C3: in a room broadcast every target whose queue has room gains the frame
\* at its tail and every target whose queue is at capacity is dropped (logged,
\* queue untouched); the loop goes on and nothing is raised.  So k targets of
\* which q are full give k-q enqueues and q drops.
C3_Backpressure ==
    /\ [][\A s, t \in Sess : EnqueueStep(s, t) /\ ~sendClosed[t] =>
            /\ pc'[s] = "bcast"
            /\ panicked' = panicked
            /\ \A o \in Sess \ {t} : Send'[o] = Send[o]
            /\ IF Len(Send[t]) < sendQueueSize
               THEN Send'[t] = Append(Send[t], payload[s]) /\ dropped'[s] = dropped[s]
               ELSE Send'[t] = Send[t] /\ dropped'[s] = dropped[s] \cup {t}]_vars
    /\ [](\A s \in Sess : dropped[s] \subseteq snap[s] \ targets[s])
    /\ [](\A s \in Sess : Len(Send[s]) <= sendQueueSize)

\* a broadcast to two connected participants, one of them with a full queue:
\* one enqueue, one drop, and the loop is over
C3_Witness ==
    \E s \in Sess :
        /\ pc[s] = "bcast" /\ targets[s] = {}
        /\ Cardinality(snap[s]) = 2 /\ Cardinality(dropped[s]) = 1
        /\ \E t \in snap[s] \ dropped[s] : Send[t] = <<payload[s]>>
        /\ panicked[s] = "no"

\* C4: a broadcaster in its enqueue loop always gets out of it by its own
\* steps alone, whatever the writers do (no fairness is assumed of them).
C4_BroadcasterNeverBlocks ==
    \A s \in Sess : (pc[s] = "bcast") ~> (pc[s] # "bcast")

\* a broadcast is over with every target's queue full: all dropped
C4_Witness ==
    \E s \in Sess :
        /\ pc[s] = "bcast" /\ targets[s] = {} /\ snap[s] # {}
        /\ dropped[s] = snap[s]
        /\ \A t \in snap[s] : Len(Send[t]) = sendQueueSize

\* C5: whichever tasks of a session detect failure, no channel is closed
\* twice, a session that left the registry never comes back, and a session
\* whose cleanup is over is out of the registry with its transport closed.
C5_TeardownOnce ==
    /\ [](\A s \in Sess : panicked[s] # "close of closed channel")
    /\ [](\A s \in Sess : pc[s] = "closed" => connClosed[s] /\ clients[userOf[s]] # s)
    /\ [][\A s \in Sess :
            /\ (sendClosed[s] => sendClosed'[s])
            /\ (pc[s] # "none" /\ clients[userOf[s]] # s => clients'[userOf[s]] # s)]_vars

\* the writer and the heartbeat both failed, the reader's read failed, and
\* the cleanup ran to its end
C5_Witness ==
    \E s \in Sess :
        /\ pc[s] = "closed" /\ wpc[s] = "failed" /\ hpc[s] = "failed"
        /\ logged[s] = "read error: closed" /\ sendClosed[s]

\* C8: a frame that does not decode, or an envelope of an unknown type,
\* leaves the session in its reader loop and registered, and sends nothing.
C8_MalformedNeverFatal ==
    [][\A s \in Sess :
        (\/ ReadMalformed(s)
         \/ \E in \in HubEnvelopes : in.Type = "ping" /\ RecvEnvelope(s, in, "none"))
        => pc'[s] = "read" /\ clients' = clients /\ Send' = Send]_vars

\* C6: a session whose peer has gone silent (no pong, no envelope) does not
\* stay in its reader loop: the read deadline passes, the reader exits and
\* the cleanup unregisters the session and closes the transport.
C6_LivenessTimeout ==
    \A s \in Sess : (Active(s) /\ peer[s] = "silent") ~> Closed(s)

\* a silent peer's session ended by the read deadline, cleanup over
C6_Witness ==
    \E s \in Sess :
        /\ peer[s] = "silent" /\ logged[s] = "read error: timeout"
        /\ Closed(s) /\ hpc[s] = "ended"

\* a newer session of the same user is installed in the place of s
Superseded(s) ==
    /\ Active(s)
    /\ \E t \in Sess \ {s} : userOf[t] = userOf[s] /\ t > s

\* C7: a session superseded by a new login of its user is terminated by the
\* hub: it reaches Closed with its three tasks stopped.
C7_SupersededIsTerminated ==
    \A s \in Sess :
        Superseded(s) ~> (Closed(s) /\ wpc[s] # "run" /\ hpc[s] # "run")

\* the sender is no participant of the room the envelope names
NotMember(s, in) ==
    in.ChatID \notin DOMAIN Participants \/ userOf[s] \notin Participants[in.ChatID]

\* the store and the queues are as they were and no broadcast has started
NothingHappened(s) ==
    /\ messages' = messages /\ updatedAt' = updatedAt /\ Send' = Send
    /\ pc'[s] = "read" /\ targets'[s] = {}

\* C9: a message envelope whose sender is no participant of the room, or
\* whose membership check returns a store error, persists nothing, touches no
\* room timestamp and starts no broadcast (so nothing is enqueued).
C9_AuthorizationRejection ==
    [][nEnv' = nEnv \/
       \A s \in Sess : pc[s] # "read" \/ NothingHappened(s) \/
          /\ \A in \in Envelopes :
                in.Type = "message" /\ NotMember(s, in) =>
                    \A fault \in StoreFaults : ~RecvEnvelope(s, in, fault)
          /\ \A in \in Envelopes :
                in.Type = "message" => ~RecvEnvelope(s, in, "count")]_vars

\* C10: a message envelope with non-empty content from a participant, with
\* the store answering, persists exactly one record with that content, sender
\* and room under a fresh id, and hands sendToRoom a message frame with the
\* same content and room and the text of that id.
C10_IngestRoundTrip ==
    [][nEnv' = nEnv \/
       \A s \in Sess, in \in Envelopes, fault \in {"none", "update", "find"} :
          (/\ pc[s] = "read"
           /\ in.Type = "message" /\ in.Content # "" /\ ~NotMember(s, in)
           /\ RecvEnvelope(s, in, fault))
          => /\ \E m \in messages' \ messages :
                  /\ messages' = messages \cup {m}
                  /\ m.Content = in.Content /\ m.UserID = userOf[s]
                  /\ m.ChatID = in.ChatID
                  /\ \A o \in messages : o.ID # m.ID
                  /\ payload'[s].type = "message"
                  /\ payload'[s].id = Hex(m.ID) /\ Len(payload'[s].id) > 0
                  /\ payload'[s].content = in.Content
                  /\ payload'[s].chatid = in.ChatID
             /\ pc'[s] = "bcast"]_vars

\* a second message has been persisted and its frame is being broadcast
C10_Witness ==
    \E s \in Sess :
        /\ pc[s] = "bcast" /\ payload[s].type = "message"
        /\ Cardinality(messages) = 2
        /\ \E m \in messages :
              /\ payload[s].id = Hex(m.ID) /\ m.ID = 2
              /\ m.Content = "hi" /\ payload[s].content = "hi"
              /\ m.UserID = userOf[s] /\ m.ChatID = payload[s].chatid

\* a non-participant's message envelope has been dispatched to a room whose
\* participant is connected: nothing stored, nothing queued, reader reading
C9_Witness ==
    \E s, t \in Sess :
        /\ userOf[s] = "u2" /\ logged[s] = "unauthorized chat access"
        /\ userOf[t] = "u1" /\ clients["u1"] = t
        /\ nEnv = 1 /\ pc[s] = "read" /\ pc[t] = "read"
        /\ messages = {} /\ updatedAt["c2"] = 0 /\ Send[t] = <<>>

\* the frames in the outbound queues and in the broadcasts under way
QueuedFrames ==
    UNION {{Send[t][i] : i \in 1..Len(Send[t])} : t \in Sess}
        \cup {payload[s] : s \in Sess}

\* the message frame f is that of a record of the messages collection
Persisted(f) ==
    \E m \in messages :
        /\ f.id = Hex(m.ID) /\ f.content = m.Content
        /\ f.chatid = m.ChatID /\ f.sender = m.UserID

\* C11: every message frame in a queue or in a broadcast under way is that of
\* a record persisted before; a message envelope whose insert fails persists
\* nothing and starts no broadcast.
C11_NoBroadcastOfUnpersisted ==
    /\ [](\A f \in QueuedFrames : f.type = "message" => Persisted(f))
    /\ [][nEnv' = nEnv \/
           \A s \in Sess : pc[s] # "read" \/
              \A in \in Envelopes :
                 in.Type = "message" /\ RecvEnvelope(s, in, "insert")
                    => NothingHappened(s) /\ payload'[s] = NoFrame]_vars

\* a participant's message met a failing insert while another participant
\* of the room was connected: nothing stored, nothing queued
C11_Witness ==
    \E s, t \in Sess :
        /\ logged[s] = "persist error: insert failed" /\ pc[s] = "read"
        /\ userOf[s] = "u1" /\ userOf[t] = "u2" /\ clients["u2"] = t
        /\ messages = {} /\ Send[s] = <<>> /\ Send[t] = <<>>

\* the sessions the registry holds
Registered == {x \in Sess : \E u \in Users : clients[u] = x}

\* C12: a presence envelope is fanned out to every registered session, its
\* originator included when registered; every target with room gains the
\* presence frame once, at the tail of its queue.
C12_PresenceFanOut ==
    /\ [][nEnv' = nEnv \/
           \A s \in Sess, in \in Envelopes :
              in.Type = "presence" /\ pc[s] = "read" /\ RecvEnvelope(s, in, "none")
                 => /\ targets'[s] = Registered
                    /\ (clients[userOf[s]] = s => s \in targets'[s])
                    /\ payload'[s] = [type |-> "presence", from |-> userOf[s],
                                       online |-> in.Online]]_vars
    /\ [][\A s, t \in Sess :
             (/\ EnqueueStep(s, t) /\ payload[s].type = "presence"
              /\ ~sendClosed[t] /\ Len(Send[t]) < sendQueueSize)
                 => /\ Send'[t] = Append(Send[t], payload[s])
                    /\ \A o \in Sess \ {t} : Send'[o] = Send[o]]_vars
    /\ [](\A s \in Sess :
             pc[s] = "bcast" /\ payload[s].type = "presence" =>
                \A t \in snap[s] \ (targets[s] \cup dropped[s]) :
                    Send[t] # <<>> /\ Send[t][Len(Send[t])] = payload[s])

\* a presence envelope of one of two registered sessions has reached both
\* queues, the originator's included, and nothing was dropped
C12_Witness ==
    \E s \in Sess :
        /\ pc[s] = "bcast" /\ targets[s] = {} /\ payload[s].type = "presence"
        /\ Cardinality(snap[s]) = 2 /\ s \in snap[s] /\ dropped[s] = {}
        /\ \A t \in snap[s] : Send[t] = <<payload[s]>>

\* C13: the queue of a session changes only by a broadcaster appending its
\* frame at the tail or by the session's one writer taking the frame at the
\* head, the oldest, to write it: frames leave in the order they came in,
\* each once.
C13_PerRecipientFIFO ==
    [][\A t \in Sess :
          Send'[t] # Send[t] =>
             \/ /\ wpc[t] = "run" /\ Send[t] # <<>>
                /\ Send'[t] = Tail(Send[t])
             \/ \E s \in Sess :
                   /\ pc[s] = "bcast" /\ t \in targets[s]
                   /\ Send'[t] = Append(Send[t], payload[s])]_vars

\* two broadcasters have both enqueued on the queue of t; the writer of t
\* has written the frame of one of them and the frame of the other is next
C13_Witness ==
    \E t \in Sess, s1, s2 \in Sess :
        /\ s1 # s2 /\ pc[s1] = "bcast" /\ pc[s2] = "bcast"
        /\ payload[s1] # payload[s2]
        /\ t \in snap[s1] \ (targets[s1] \cup dropped[s1])
        /\ t \in snap[s2] \ (targets[s2] \cup dropped[s2])
        /\ Send[t] = <<payload[s2]>> /\ wpc[t] = "run"
        /\ nEnv = 2

\* C14: the registry holds, for each userID, no session or one session, and
\* the session it holds for a userID is a session of that user, accepted
\* before.
C14_RegistryUniqueness ==
    /\ clients \in [Users -> Sess \cup {NoSess}]
    /\ \A u \in Users : Cardinality({s \in Sess : clients[u] = s}) <= 1
    /\ \A u \in Users :
          clients[u] # NoSess => clients[u] <= nSess /\ userOf[clients[u]] = u

\* two sessions of one user: the older one's teardown is about to run, the
\* newer one is reading and is the one the registry holds
C14_Witness ==
    \E s, t \in Sess :
        /\ s < t /\ userOf[s] = userOf[t]
        /\ pc[s] = "defer_unreg" /\ pc[t] = "read"
        /\ clients[userOf[s]] = t

\* the tokens the validator accepts
ValidTokens == {"t1", "t2"}

\* C15: a connection attempt with no token or with a token the validator
\* rejects is answered unauthorized and changes nothing else: no session, no
\* registry entry added or replaced, no task started.
C15_AuthFailureCreatesNothing ==
    [][\A tok \in Tokens \ ValidTokens, upgraded \in BOOLEAN :
          HandleWebSocket(tok, upgraded) =>
             /\ response' \in {"unauthorized", "unauthorized: missing token"}
             /\ UNCHANGED <<clients, nSess, userOf, pc, Send, sendClosed,
                            connClosed, wpc, hpc, timer, peer, targets, payload,
                            snap, dropped, panicked, messages, updatedAt,
                            logged, nEnv>>]_vars

\* an attempt with a rejected token was refused while a session of u1 was
\* registered and reading: the session and the entry are as they were
C15_Witness ==
    /\ response = "unauthorized" /\ nSess = 1
    /\ clients["u1"] = 1 /\ pc[1] = "read" /\ wpc[1] = "run" /\ hpc[1] = "run"
    /\ pc[2] = "none" /\ wpc[2] = "none" /\ hpc[2] = "none"

\* the enqueue loop of s meets the full, open queue of t in this step
DropStep(s, t) ==
    /\ EnqueueStep(s, t)
    /\ ~sendClosed[t] /\ Len(Send[t]) >= sendQueueSize

\* C16: when the enqueue loop meets a full queue, that delivery alone is
\* dropped: every queue is as it was, the other targets are still to be
\* served, and no session (the sender, the slow recipient, any other) is
\* torn down, unregistered or closed by the step.
C16_OverloadIsLocal ==
    /\ [][\A s, t \in Sess : DropStep(s, t) =>
             /\ Send' = Send
             /\ dropped'[s] = dropped[s] \cup {t}
             /\ targets'[s] = targets[s] \ {t}
             /\ payload' = payload
             /\ pc' = pc /\ clients' = clients
             /\ sendClosed' = sendClosed /\ connClosed' = connClosed
             /\ panicked' = panicked /\ wpc' = wpc /\ hpc' = hpc]_vars
    /\ [][\A s, o \in Sess :
             (/\ EnqueueStep(s, o) /\ dropped[s] # {}
              /\ ~sendClosed[o] /\ Len(Send[o]) < sendQueueSize)
                 => Send'[o] = Append(Send[o], payload[s])]_vars

\* a broadcast dropped its frame for a slow recipient other than the sender
\* and then delivered it to the sender's own queue; both sessions are still
\* registered and in their reader loops
C16_Witness ==
    \E s, t \in Sess :
        /\ s # t /\ pc[s] = "bcast" /\ targets[s] = {}
        /\ snap[s] = {s, t} /\ dropped[s] = {t}
        /\ Len(Send[t]) = sendQueueSize /\ payload[s] \notin {Send[t][i] : i \in 1..Len(Send[t])}
        /\ Send[s] # <<>> /\ Send[s][Len(Send[s])] = payload[s]
        /\ Active(t) /\ clients[userOf[t]] = t /\ clients[userOf[s]] = s
        /\ ~sendClosed[t] /\ ~connClosed[t] /\ panicked[s] = "no"

\* C17: no broadcaster ever sends to a queue that has been closed, that is,
\* no handler goroutine panics with a send on a closed channel.
C17_NoSendOnClosedQueue ==
    \A s \in Sess : panicked[s] # "send on closed channel"

\* C18: once the teardown of a session is over, the session's own queue is
\* closed and its writer and its heartbeat come to an end, also when the
\* session had been superseded before its teardown ran.
C18_TeardownStopsOwnTasks ==
    \A s \in Sess :
        (pc[s] = "closed") ~> (sendClosed[s] /\ wpc[s] # "run" /\ hpc[s] # "run")

\* C19: the registry critical section of the teardown of s closes no queue
\* but that of s.
C19_ClosesOnlyOwnQueue ==
    [][\A s \in Sess : UnregisterStep(s) =>
          \A t \in Sess \ {s} : sendClosed'[t] = sendClosed[t]]_vars

\* the writer of s has returned: a write failed or the queue was closed
WriterGone(s) == wpc[s] \in {"failed", "ended"}

\* C20: a session whose writer has returned is torn down: its reader leaves
\* the loop, the session leaves the registry and the transport is closed.
C20_WriterExitDrivesTeardown ==
    \A s \in Sess : WriterGone(s) ~> Closed(s)

\* C21: every envelope the reader decodes sets the read deadline anew, as
\* every pong does.
C21_DeadlineRefresh ==
    [][\A s \in Sess :
          (\/ Pong(s)
           \/ \E in \in TimedEnvelopes : RecvEnvelope(s, in, "none"))
             => timer'[s] = 0]_vars

\* C22: every session the registry holds has an open queue and has not run
\* the registry section of its teardown; the registry holds no session that
\* is closed or whose queue is closed.
C22_RegistryEntriesLive ==
    \A u \in Users :
        clients[u] # NoSess =>
            /\ ~sendClosed[clients[u]]
            /\ pc[clients[u]] \in {"read", "bcast", "defer_unreg"}

\* one session is closed and out of the registry; the other is registered,
\* its transport already closed by its heartbeat and its teardown about to
\* run, its queue still open
C22_Witness ==
    \E s, t \in Sess :
        /\ pc[t] = "closed" /\ sendClosed[t] /\ clients[userOf[t]] # t
        /\ pc[s] = "defer_unreg" /\ clients[userOf[s]] = s
        /\ connClosed[s] /\ hpc[s] = "failed" /\ ~sendClosed[s]

\* the room frames (message, typing) in the queue of t
RoomFramesOf(t) ==
    {f \in {Send[t][i] : i \in 1..Len(Send[t])} : f.type \in {"message", "typing"}}

\* C23: no room frame in any queue was sent by a user who is no participant
\* of the frame's room.
C23_RoomIsolation ==
    \A t \in Sess : \A f \in RoomFramesOf(t) :
        f.sender \in Participants[f.chatid]

\* C24: every record of the messages collection has content or a media
\* attachment.
C24_NoEmptyMessageStored ==
    \A m \in messages : m.Content # "" \/ m.Media # Nil

\* C25: a message envelope with neither content nor media URL, from a
\* participant whose membership check succeeded, is rejected: no record is
\* inserted, no room timestamp is written, no broadcast starts and no queue
\* changes, whatever the media type and whatever the later store calls
\* would have answered.
C25_EmptyMessageRejection ==
    [][nEnv' = nEnv \/
       \A s \in Sess : pc[s] # "read" \/
          \A in \in Envelopes, fault \in StoreFaults \ {"count"} :
             (/\ in.Type = "message" /\ in.Content = "" /\ in.MediaURL = ""
              /\ ~NotMember(s, in)
              /\ RecvEnvelope(s, in, fault))
                => /\ NothingHappened(s) /\ payload'[s] = NoFrame
                   /\ logged'[s] = "persist error: empty content and media"]_vars

\* a participant's empty message envelope has been rejected while the other
\* participant of the room was connected: nothing stored, nothing queued
C25_Witness ==
    \E s, t \in Sess :
        /\ logged[s] = "persist error: empty content and media"
        /\ pc[s] = "read" /\ pc[t] = "read" /\ nEnv = 1
        /\ userOf[s] = "u2" /\ userOf[t] = "u1" /\ clients["u1"] = t
        /\ messages = {} /\ updatedAt["c1"] = 0
        /\ Send[s] = <<>> /\ Send[t] = <<>>

\* the registered sessions of the participants of room cid
RegisteredParticipants(cid) ==
    {x \in Registered : userOf[x] \in Participants[cid]}

\* the reader of s starts a room broadcast in this step
RoomBroadcastStarts(s) ==
    /\ pc[s] = "read" /\ pc'[s] = "bcast"
    /\ payload'[s].type \in {"message", "typing"}

\* C26: a room broadcast resolves its targets to the registered sessions of
\* the room's participants, and to none when the room cannot be fetched; a
\* queue gains a frame only as a target of a broadcast under way; no queue of
\* a non-participant ever holds a frame of the room.
C26_RoomTargets ==
    /\ [][\A s \in Sess : RoomBroadcastStarts(s) =>
             IF logged'[s] = "broadcast chat not found"
             THEN targets'[s] = {}
             ELSE /\ payload'[s].chatid \in DOMAIN Participants
                  /\ targets'[s] = RegisteredParticipants(payload'[s].chatid)]_vars
    /\ [][\A t \in Sess :
             Send'[t] # Send[t] =>
                \E s \in Sess : pc[s] = "bcast" /\ t \in targets[s]
                                 /\ targets'[s] = targets[s] \ {t}]_vars
    /\ [](\A t \in Sess : \A f \in RoomFramesOf(t) :
             userOf[t] \in Participants[f.chatid])
    /\ [](\A s \in Sess : pc[s] \notin {"bcast"} => targets[s] = {})

\* a frame of room c2 has been broadcast while a non-participant was
\* registered: the participant's queue holds it, the other queue is empty
C26_Witness ==
    \E s, t \in Sess :
        /\ pc[s] = "bcast" /\ targets[s] = {} /\ payload[s].type = "message"
        /\ payload[s].chatid = "c2" /\ snap[s] = {s}
        /\ Send[s] = <<payload[s]>>
        /\ userOf[t] = "u2" /\ clients["u2"] = t /\ Send[t] = <<>>

\* the envelopes that are forwarded without being stored
SignalEnvelopes == {e \in Envelopes : e.Type \in {"typing", "presence"}}

\* C27: the dispatch of a typing or presence envelope writes nothing to the
\* store; a typing envelope starts a room broadcast of a typing frame for the
\* envelope's room, a presence envelope a broadcast of a presence frame to
\* every registered session, whoever the sender is.
C27_SignalsNotPersisted ==
    [][nEnv' = nEnv \/
       \A s \in Sess : pc[s] # "read" \/
          \A in \in SignalEnvelopes : \A fault \in FaultsOf(in) :
             RecvEnvelope(s, in, fault) =>
                /\ messages' = messages /\ updatedAt' = updatedAt
                /\ pc'[s] = "bcast"
                /\ in.Type = "typing" =>
                      /\ payload'[s] = [type |-> "typing", sender |-> userOf[s],
                                         chatid |-> in.ChatID]
                      /\ targets'[s] =
                            IF in.ChatID \in DOMAIN Participants /\ fault # "find"
                            THEN RegisteredParticipants(in.ChatID)
                            ELSE {}
                /\ in.Type = "presence" =>
                      /\ payload'[s] = [type |-> "presence", from |-> userOf[s],
                                         online |-> in.Online]
                      /\ targets'[s] = Registered]_vars

\* a typing frame has reached a participant's queue and the store is as it
\* was at the start
C27_Witness ==
    \E s, t \in Sess :
        /\ pc[s] = "bcast" /\ targets[s] = {} /\ payload[s].type = "typing"
        /\ s # t /\ Send[t] = <<payload[s]>> /\ nEnv = 1
        /\ messages = {} /\ \A c \in DOMAIN Participants : updatedAt[c] = 0

\* the heartbeat of s takes its ticker case in this step and the ping fails
PingStep(s) == hpc[s] = "run" /\ hpc'[s] = "failed"

\* C28: a failed ping leads to the teardown of the session; once the
\* cancellation channel of the session is closed its heartbeat attempts no
\* further ping, and it comes to an end.
C28_Heartbeat ==
    /\ \A s \in Sess : (hpc[s] = "failed") ~> Closed(s)
    /\ [][\A s \in Sess : PingStep(s) => ~doneClosed(s)]_vars
    /\ \A s \in Sess : doneClosed(s) ~> (hpc[s] # "run")

\* the combination a chat document stands for
ChatKey(doc) == <<doc.participants, doc.entitytype, doc.entityid>>

\* C29: StartNewChat does not duplicate chats: no two documents are ever
\* stored for the same sorted participant set and the same entity type and
\* id, and a request answered with a chat is answered with the one document
\* of its combination.
C29_NoDuplicateChats ==
    /\ \A i, j \in 1..Len(chats) :
           i < j => ChatKey(chats[i]) # ChatKey(chats[j])
    /\ \A r \in Calls : \A i \in 1..Len(chats) :
           /\ calls[r].pc = "done" /\ calls[r].status = 200
           /\ ChatKey(chats[i]) = <<calls[r].participants, calls[r].EntityType,
                                    calls[r].EntityId>>
           => calls[r].chat = chats[i]

\* the returns of SaveFile before anything is written
SaveRefusals ==
    {"unknown picture type", "ErrInvalidExtension", "ErrInvalidMIME",
     "extension does not match MIME type"}

\* C30: a call of SaveFile with a positive limit on a clean stream longer
\* than the limit, which passes the extension and MIME checks and meets no
\* file system failure, returns ErrFileTooLarge and leaves no file.
C30_SizeLimit ==
    /\ saved.called /\ saved.maxSize > 0 /\ saved.len > saved.maxSize
    /\ saved.fault = "none" /\ saved.clean
    /\ saved.ret \notin SaveRefusals
    => saved.ret = "ErrFileTooLarge" /\ saved.stored = NoFile
====
